---------------------------- MODULE Spec2Model ----------------------------
(***************************************************************************)
(* Portfolio page interactions: the scroll sampler (progress bar, about    *)
(* reveal, scrollspy with click lock) behind its animation-frame gate, the *)
(* older scroll listener and IntersectionObserver of script.js, and the    *)
(* project drawer controller.                                              *)
(*                                                                         *)
(* Lengths are CSS pixels, times are milliseconds.  An optional value      *)
(* (null or a value) is the empty sequence or a one-element sequence.      *)
(***************************************************************************)
EXTENDS Integers, Sequences, FiniteSets, TLC

VARIABLES
    doc,              \* the document the scripts were loaded into (markup, layout)
    innerHeight,      \* window.innerHeight
    scrollTop,        \* window.scrollY
    now,              \* Date.now(), counted from page load
    lockedActiveId,   \* part_000:21
    lockedUntil,      \* part_000:22
    aboutRevealed,    \* part_000:97
    aboutVisible,     \* .about-section has class "visible"
    ticking,          \* part_000:159
    pendingRecompute, \* frame callbacks of onScrollOrResize not yet run
    recomputed,       \* recomputations run by the latest frame
    activeId,         \* part_000:169, the latest computed id
    linkActive,       \* per nav link: has class "active"
    ariaCurrent,      \* per nav link: has aria-current="page"
    progressWidth,    \* #scroll-progress style.width, a fraction <<n, d>> percent
    threw,            \* some handler ended with an uncaught TypeError
    proj,             \* the projects markup (cards, drawer parts)
    mobile,           \* mobileMQ.matches
    activeCard,       \* part_000:201 (0 is null)
    dataActive,       \* per card: dataset.active
    ariaExpanded,     \* per card: aria-expanded of its .project-header
    hidden,           \* drawer.hidden
    drawerTitle,      \* drawerTitle.textContent
    drawerBody,       \* drawerBody content: 0 empty, c a clone of card c's template
    grid,             \* children of the projects grid, in order
    drawerVisible,    \* drawer has class "drawer-visible"
    pendingShow,      \* frame callbacks of openDrawerFor not yet run
    lastActivated,    \* the card whose header was activated last (0: none yet)
    lastOpenable,     \* the card with a template whose header was activated last
    lastEvent,        \* the listener of the drawer controller that ran last
    wasHidden         \* drawer.hidden when that listener started

spyVars == <<innerHeight, scrollTop, now, lockedActiveId, lockedUntil,
             aboutRevealed, aboutVisible, ticking, pendingRecompute,
             recomputed, activeId, linkActive, ariaCurrent, progressWidth, threw>>
drawerVars == <<mobile, activeCard, dataActive, ariaExpanded, hidden, drawerTitle,
                drawerBody, grid, drawerVisible, pendingShow, lastActivated,
                lastOpenable, lastEvent, wasHidden>>
vars == <<doc, proj, spyVars, drawerVars>>

-----------------------------------------------------------------------------
(* Bounds of the exploration *)

MaxTicks == 5        \* the clock stops after this many ticks
MaxPending == 2      \* frame callbacks of one kind that may be queued

-----------------------------------------------------------------------------
(* Program constants *)

LockMs == 900              \* part_000:65, :78
TopFallbackPx == 80        \* part_000:126
BottomFallbackPx == 140    \* part_000:129
DefaultNavHeight == 64     \* part_000:133

TickMs == LockMs \div 3    \* the clock advances in thirds of the lock time

None == <<>>
Some(x) == <<x>>

Max(a, b) == IF a >= b THEN a ELSE b

\* a link's href: "#" followed by id, or something else (no "#" prefix, or no
\* href attribute at all, which getAttribute("href") || "" turns into "")
Hash(id) == [frag |-> TRUE, id |-> id]
Other(s) == [frag |-> FALSE, id |-> s]

\* JavaScript truthiness of "null or a string"
Truthy(opt) == opt # None /\ opt[1] # ""

-----------------------------------------------------------------------------
(* Documents *)

Ids == {"home", "about", "projects", "contact"}

PageTop(d, id) == d.top[id]

\* the portfolio page as designed: four linked sections on a tall page
MainDoc ==
    [ navLinks |-> <<Hash("home"), Hash("about"), Hash("projects"), Hash("contact")>>,
      hasNav |-> TRUE, navHeight |-> 64,
      hasProgress |-> TRUE, hasAbout |-> TRUE, aboutTop |-> 800, aboutHeight |-> 600,
      ids |-> {"home", "about", "projects", "contact"},
      top |-> [id \in Ids |-> CASE id = "home" -> 0 [] id = "about" -> 800
                                [] id = "projects" -> 1600 [] OTHER -> 2800],
      htmlHeight |-> 3000, bodyHeight |-> 3000,
      viewports |-> {600, 800},
      stops |-> {0, 79, 80, 400, 1200} ]

\* a short page (maximum scroll offset below 80), a logo link "#", a link that
\* leaves the page, a footer #contact no link points to, no progress bar
ShortDoc ==
    [ navLinks |-> <<Hash(""), Hash("about"), Other("cv.pdf")>>,
      hasNav |-> TRUE, navHeight |-> 50,
      hasProgress |-> FALSE, hasAbout |-> TRUE, aboutTop |-> 700, aboutHeight |-> 100,
      ids |-> {"about", "contact"},
      top |-> [id \in Ids |-> CASE id = "about" -> 700 [] id = "contact" -> 820
                                [] OTHER -> 0],
      htmlHeight |-> 860, bodyHeight |-> 760,
      viewports |-> {800},
      stops |-> {0, 30} ]

\* links out of page order, two sections at one offset, no about section, a
\* link without href, a body shorter than the document element
MixedDoc ==
    [ navLinks |-> <<Hash("contact"), Hash("projects"), Hash("home"), Other("")>>,
      hasNav |-> TRUE, navHeight |-> 100,
      hasProgress |-> TRUE, hasAbout |-> FALSE, aboutTop |-> 0, aboutHeight |-> 0,
      ids |-> {"home", "projects", "contact"},
      top |-> [id \in Ids |-> CASE id = "home" -> 500 [] id = "projects" -> 500
                                [] id = "contact" -> 1100 [] OTHER -> 0],
      htmlHeight |-> 1300, bodyHeight |-> 800,
      viewports |-> {800},
      stops |-> {0, 80, 200} ]

\* a page with none of the expected elements
EmptyDoc ==
    [ navLinks |-> <<>>,
      hasNav |-> FALSE, navHeight |-> 0,
      hasProgress |-> FALSE, hasAbout |-> FALSE, aboutTop |-> 0, aboutHeight |-> 0,
      ids |-> {},
      top |-> [id \in Ids |-> 0],
      htmlHeight |-> 1000, bodyHeight |-> 1000,
      viewports |-> {800},
      stops |-> {0, 100} ]

\* a page that fits the viewport: nothing to scroll
FitDoc ==
    [ navLinks |-> <<Hash("home"), Hash("contact")>>,
      hasNav |-> TRUE, navHeight |-> 64,
      hasProgress |-> TRUE, hasAbout |-> TRUE, aboutTop |-> 300, aboutHeight |-> 200,
      ids |-> {"home", "contact"},
      top |-> [id \in Ids |-> CASE id = "contact" -> 600 [] OTHER -> 0],
      htmlHeight |-> 700, bodyHeight |-> 800,
      viewports |-> {800},
      stops |-> {0} ]

Documents == {MainDoc, ShortDoc, MixedDoc, EmptyDoc, FitDoc}

\* document.documentElement.clientHeight
ClientHeight(h) == h

\* document.documentElement.scrollHeight: never less than the client height
ScrollHeight(d, h) == Max(d.htmlHeight, ClientHeight(h))

\* scrollHeight - clientHeight, the maximum scroll offset
DocHeight(d, h) == ScrollHeight(d, h) - ClientHeight(h)

\* the scroll offsets explored: the page's stops, the offsets around the
\* bottom fallback, and the bottom
ScrollStops(d, h) ==
    { s \in d.stops \cup { DocHeight(d, h) - BottomFallbackPx,
                           DocHeight(d, h) - BottomFallbackPx + 1,
                           DocHeight(d, h) } :
        0 <= s /\ s <= DocHeight(d, h) }


-----------------------------------------------------------------------------
(* Scrollspy: link targets (part_000:24-53) *)

\* navLinks.map(...).filter(Boolean): a link "#id" whose element exists
RECURSIVE MapTargets(_, _)
MapTargets(d, i) ==
    IF i > Len(d.navLinks) THEN <<>>
    ELSE LET a == d.navLinks[i]
         IN  (IF a.frag /\ a.id \in d.ids THEN <<[id |-> a.id, link |-> i]>> ELSE <<>>)
             \o MapTargets(d, i + 1)

\* one step of a stable sort by page position: t goes behind every entry that
\* is not below it
RECURSIVE InsertTarget(_, _, _)
InsertTarget(d, sorted, t) ==
    IF sorted = <<>> THEN <<t>>
    ELSE IF PageTop(d, Head(sorted).id) - PageTop(d, t.id) <= 0
         THEN <<Head(sorted)>> \o InsertTarget(d, Tail(sorted), t)
         ELSE <<t>> \o sorted

RECURSIVE SortBy(_, _, _)
SortBy(d, ts, acc) ==
    IF ts = <<>> THEN acc ELSE SortBy(d, Tail(ts), InsertTarget(d, acc, Head(ts)))

sortTargetsByPagePosition(d, ts) == SortBy(d, ts, <<>>)

\* the first link whose href is exactly "#contact", 0 for none
RECURSIVE FindLink(_, _, _)
FindLink(d, id, i) ==
    IF i > Len(d.navLinks) THEN 0
    ELSE IF d.navLinks[i] = Hash(id) THEN i ELSE FindLink(d, id, i + 1)

\* The list is built once, when the sampler is constructed, and only read
\* afterwards: one value per document.
linkTargetsOf[d \in Documents] ==
    LET sorted == sortTargetsByPagePosition(d, MapTargets(d, 1))
    IN  IF "contact" \in d.ids /\ ~ \E k \in 1..Len(sorted) : sorted[k].id = "contact"
        THEN Append(sorted, [id |-> "contact", link |-> FindLink(d, "contact", 1)])
        ELSE sorted

linkTargets(d) == linkTargetsOf[d]

-----------------------------------------------------------------------------
(* Scrollspy: active link (part_000:55-80) *)

\* the classes and aria-current after setActive(id): one boolean per link
setActive(d, id) == [i \in 1..Len(d.navLinks) |-> d.navLinks[i] = Hash(id)]

-----------------------------------------------------------------------------
(* Scroll progress (part_000:82-93, script.js:22-28) *)

RECURSIVE Gcd(_, _)
Gcd(a, b) == IF b = 0 THEN a ELSE Gcd(b, a % b)

\* the fraction n/d (d > 0, n >= 0) in lowest terms
Frac(n, d) == LET g == Gcd(n, d) IN <<n \div g, d \div g>>

\* updateProgress without its docHeight > 0 test: 0/0 is NaN, "NaN%" is no
\* valid width and the style stays as it was
updateProgressUnguarded(d, h, st, width) ==
    IF ~d.hasProgress THEN width
    ELSE IF DocHeight(d, h) = 0 THEN width
    ELSE Frac(st * 100, DocHeight(d, h))

\* part_000: the width after updateProgress
updateProgress(d, h, st, width) ==
    IF ~d.hasProgress THEN width
    ELSE IF DocHeight(d, h) > 0 THEN Frac(st * 100, DocHeight(d, h)) ELSE Frac(0, 1)

\* script.js: (scrollTop / docHeight) * 100 with docHeight = body.scrollHeight -
\* innerHeight.  NaN, Infinity and negative percentages are not valid widths
\* and the assignment leaves the style as it was; -0 prints as "0".
ScriptProgress(d, h, st, width) ==
    LET docHeight == d.bodyHeight - h
    IN  IF docHeight = 0 THEN width
        ELSE IF docHeight < 0 THEN (IF st = 0 THEN Frac(0, 1) ELSE width)
        ELSE Frac(st * 100, docHeight)

-----------------------------------------------------------------------------
(* About reveal (part_000:95-110, script.js:5-20) *)

\* aboutSection.getBoundingClientRect().top
AboutRectTop(d, st) == d.aboutTop - st

\* rect.top < vh * 0.75
AboutEntered(d, h, st) == 4 * AboutRectTop(d, st) < 3 * h

\* updateAboutReveal that toggles the class with the position instead of latching
updateAboutRevealToggling(d, h, st, revealed, visible) ==
    IF ~d.hasAbout THEN <<revealed, visible>>
    ELSE <<revealed \/ AboutEntered(d, h, st), AboutEntered(d, h, st)>>

\* <<aboutRevealed, has class "visible">> after updateAboutReveal
updateAboutReveal(d, h, st, revealed, visible) ==
    IF ~d.hasAbout \/ revealed THEN <<revealed, visible>>
    ELSE IF AboutEntered(d, h, st) THEN <<TRUE, TRUE>>
    ELSE <<revealed, visible>>

\* entry.isIntersecting for the about section: its box meets the viewport
IsIntersecting(d, h, st) ==
    AboutRectTop(d, st) <= h /\ AboutRectTop(d, st) + d.aboutHeight >= 0

-----------------------------------------------------------------------------
(* Scrollspy: the active section (part_000:112-156) *)

NavH(d) == IF d.hasNav THEN d.navHeight ELSE DefaultNavHeight

\* top <= scrollTop + navH + innerHeight * 0.3
AtOrAboveLine(d, h, st, top) == 10 * top <= 10 * (st + NavH(d)) + 3 * h

\* the loop without its test against the activation line
RECURSIVE ScanTargetsIgnoringLine(_, _, _, _, _, _)
ScanTargetsIgnoringLine(d, h, st, ts, best, id) ==
    IF ts = <<>> THEN id
    ELSE LET top == PageTop(d, Head(ts).id)
         IN  IF best = None \/ top > best[1]
             THEN ScanTargetsIgnoringLine(d, h, st, Tail(ts), Some(top), Head(ts).id)
             ELSE ScanTargetsIgnoringLine(d, h, st, Tail(ts), best, id)

\* the loop of lines 142-149; best is None for -Infinity
RECURSIVE ScanTargets(_, _, _, _, _, _)
ScanTargets(d, h, st, ts, best, id) ==
    IF ts = <<>> THEN id
    ELSE LET top == PageTop(d, Head(ts).id)
         IN  IF AtOrAboveLine(d, h, st, top) /\ (best = None \/ top > best[1])
             THEN ScanTargets(d, h, st, Tail(ts), Some(top), Head(ts).id)
             ELSE ScanTargets(d, h, st, Tail(ts), best, id)

\* the lock test with <= for <
LockHoldsInclusive(lockId, lockUntil, t) == Truthy(lockId) /\ t <= lockUntil

LockHolds(lockId, lockUntil, t) == Truthy(lockId) /\ t < lockUntil

\* computeActiveSectionId without the bottom fallback
computeWithoutBottomFallback(d, h, st, t, lockId, lockUntil) ==
    LET ts == linkTargets(d)
    IN  IF Len(ts) = 0 THEN [id |-> None, lock |-> lockId]
        ELSE IF LockHolds(lockId, lockUntil, t) THEN [id |-> lockId, lock |-> lockId]
        ELSE IF st < TopFallbackPx THEN [id |-> Some("home"), lock |-> lockId]
        ELSE [id |-> Some(ScanTargets(d, h, st, ts, None, ts[1].id)),
              lock |-> IF Truthy(lockId) /\ t >= lockUntil THEN None ELSE lockId]

\* computeActiveSectionId testing the bottom fallback before the top fallback
computeBottomFirst(d, h, st, t, lockId, lockUntil) ==
    LET ts == linkTargets(d)
    IN  IF Len(ts) = 0 THEN [id |-> None, lock |-> lockId]
        ELSE IF LockHolds(lockId, lockUntil, t) THEN [id |-> lockId, lock |-> lockId]
        ELSE IF DocHeight(d, h) > 0 /\ st > DocHeight(d, h) - BottomFallbackPx
             THEN [id |-> Some("contact"), lock |-> lockId]
        ELSE IF st < TopFallbackPx THEN [id |-> Some("home"), lock |-> lockId]
        ELSE [id |-> Some(ScanTargets(d, h, st, ts, None, ts[1].id)),
              lock |-> IF Truthy(lockId) /\ t >= lockUntil THEN None ELSE lockId]

\* the id returned (None for null) and lockedActiveId afterwards
computeActiveSectionId(d, h, st, t, lockId, lockUntil) ==
    LET ts == linkTargets(d)
    IN  IF Len(ts) = 0 THEN [id |-> None, lock |-> lockId]
        ELSE IF LockHolds(lockId, lockUntil, t) THEN [id |-> lockId, lock |-> lockId]
        ELSE IF st < TopFallbackPx THEN [id |-> Some("home"), lock |-> lockId]
        ELSE IF DocHeight(d, h) > 0 /\ st > DocHeight(d, h) - BottomFallbackPx
             THEN [id |-> Some("contact"), lock |-> lockId]
        ELSE [id |-> Some(ScanTargets(d, h, st, ts, None, ts[1].id)),
              lock |-> IF Truthy(lockId) /\ t >= lockUntil THEN None ELSE lockId]

-----------------------------------------------------------------------------
(* The animation-frame gate (part_000:158-185) *)

\* onScrollOrResize without the ticking test
onScrollOrResizeUngated(g) == [ticking |-> TRUE, pending |-> g.pending + 1]

\* onScrollOrResize on <<ticking, callbacks pending>>
onScrollOrResize(g) ==
    IF g.ticking THEN g ELSE [ticking |-> TRUE, pending |-> g.pending + 1]

Gate ==
    LET g == onScrollOrResize([ticking |-> ticking, pending |-> pendingRecompute])
    IN  ticking' = g.ticking /\ pendingRecompute' = g.pending


-----------------------------------------------------------------------------
(* Projects markup (part_000:188-199) *)

Card(header, template, title) ==
    [hasHeader |-> header, hasTemplate |-> template, title |-> title]

\* four cards: complete; without h3; header but no .project-template; no
\* .project-header.  Child 0 of the grid is the drawer.
FullProjects ==
    [ cards |-> << Card(TRUE, TRUE, Some("Alpha")), Card(TRUE, TRUE, None),
                   Card(TRUE, FALSE, Some("Gamma")), Card(FALSE, TRUE, Some("Delta")) >>,
      hasDrawer |-> TRUE, hasTitle |-> TRUE, hasBody |-> TRUE, hasClose |-> TRUE,
      children |-> <<1, 2, 3, 4, 0>> ]

\* the drawer written before the cards in the markup
DrawerFirstProjects ==
    [ cards |-> << Card(TRUE, TRUE, Some("Alpha")), Card(TRUE, FALSE, None),
                   Card(TRUE, TRUE, Some("")) >>,
      hasDrawer |-> TRUE, hasTitle |-> TRUE, hasBody |-> TRUE, hasClose |-> TRUE,
      children |-> <<0, 1, 2, 3>> ]

\* cards but no #project-drawer
NoDrawerProjects ==
    [ cards |-> << Card(TRUE, TRUE, Some("Alpha")) >>,
      hasDrawer |-> FALSE, hasTitle |-> FALSE, hasBody |-> FALSE, hasClose |-> FALSE,
      children |-> <<1>> ]

\* a drawer without its close button
NoCloseProjects ==
    [ cards |-> << Card(TRUE, TRUE, Some("Alpha")) >>,
      hasDrawer |-> TRUE, hasTitle |-> TRUE, hasBody |-> TRUE, hasClose |-> FALSE,
      children |-> <<1, 0>> ]

\* a drawer but no [data-project] card
NoCardProjects ==
    [ cards |-> << >>,
      hasDrawer |-> TRUE, hasTitle |-> TRUE, hasBody |-> TRUE, hasClose |-> TRUE,
      children |-> <<0>> ]

ProjectMarkups ==
    {FullProjects, DrawerFirstProjects, NoDrawerProjects, NoCloseProjects, NoCardProjects}

Cards(p) == 1..Len(p.cards)

\* the guard of lines 195-196 passed: the controller bound its handlers
ControllerBound(p) ==
    Len(p.cards) # 0 /\ p.hasDrawer /\ p.hasTitle /\ p.hasBody /\ p.hasClose

-----------------------------------------------------------------------------
(* Drawer controller (part_000:201-277), on the record of the drawer state *)

DrawerState ==
    [ activeCard |-> activeCard, dataActive |-> dataActive,
      ariaExpanded |-> ariaExpanded, hidden |-> hidden, title |-> drawerTitle,
      body |-> drawerBody, grid |-> grid, visible |-> drawerVisible,
      pendingShow |-> pendingShow ]

Without(seq, x) == SelectSeq(seq, LAMBDA y : y # x)

RECURSIVE InsertAfter(_, _, _)
InsertAfter(seq, c, x) ==
    IF seq = <<>> THEN <<>>
    ELSE IF Head(seq) = c THEN <<c, x>> \o Tail(seq)
    ELSE <<Head(seq)>> \o InsertAfter(Tail(seq), c, x)

\* dockDrawer that always appends to the grid
dockDrawerAppendOnly(g, mq, card) == Append(Without(g, 0), 0)

\* the grid's children after dockDrawer
dockDrawer(g, mq, card) ==
    IF mq /\ card # 0 THEN InsertAfter(Without(g, 0), card, 0)
    ELSE Append(Without(g, 0), 0)

\* clearActiveStates that forgets dataset.active
clearActiveStatesAriaOnly(p, ds) ==
    [ds EXCEPT !.ariaExpanded = [c \in Cards(p) |->
                    IF p.cards[c].hasHeader THEN Some("false") ELSE ds.ariaExpanded[c]]]

clearActiveStates(p, ds) ==
    [ds EXCEPT !.dataActive = [c \in Cards(p) |-> Some("false")],
               !.ariaExpanded = [c \in Cards(p) |->
                    IF p.cards[c].hasHeader THEN Some("false") ELSE ds.ariaExpanded[c]]]

closeDrawer(p, mq, ds) ==
    LET cleared == clearActiveStates(p, ds)
    IN  [cleared EXCEPT !.activeCard = 0, !.body = 0, !.title = "",
                        !.grid = dockDrawer(cleared.grid, mq, 0),
                        !.hidden = TRUE, !.visible = FALSE]

\* openDrawerFor that does not clear the other cards before marking this one
openDrawerForKeepingOthers(p, mq, ds, card) ==
    IF ~p.cards[card].hasHeader \/ ~p.cards[card].hasTemplate THEN ds
    ELSE IF ds.activeCard = card /\ ds.hidden = FALSE THEN closeDrawer(p, mq, ds)
    ELSE [ds EXCEPT
                !.activeCard = card,
                !.dataActive[card] = Some("true"),
                !.ariaExpanded[card] = Some("true"),
                !.title = IF p.cards[card].title # None THEN p.cards[card].title[1]
                          ELSE "Project",
                !.body = card,
                !.grid = dockDrawer(ds.grid, mq, card),
                !.hidden = FALSE,
                !.pendingShow = ds.pendingShow + 1]

\* openDrawerFor that tests the header only, not the template
openDrawerForAnyTemplate(p, mq, ds, card) ==
    IF ~p.cards[card].hasHeader THEN ds
    ELSE IF ds.activeCard = card /\ ds.hidden = FALSE THEN closeDrawer(p, mq, ds)
    ELSE LET cleared == clearActiveStates(p, ds)
         IN  [cleared EXCEPT
                !.activeCard = card,
                !.dataActive[card] = Some("true"),
                !.ariaExpanded[card] = Some("true"),
                !.title = IF p.cards[card].title # None THEN p.cards[card].title[1]
                          ELSE "Project",
                !.body = card,
                !.grid = dockDrawer(cleared.grid, mq, card),
                !.hidden = FALSE,
                !.pendingShow = cleared.pendingShow + 1]

openDrawerFor(p, mq, ds, card) ==
    IF ~p.cards[card].hasHeader \/ ~p.cards[card].hasTemplate THEN ds
    ELSE IF ds.activeCard = card /\ ds.hidden = FALSE THEN closeDrawer(p, mq, ds)
    ELSE LET cleared == clearActiveStates(p, ds)
         IN  [cleared EXCEPT
                !.activeCard = card,
                !.dataActive[card] = Some("true"),
                !.ariaExpanded[card] = Some("true"),
                !.title = IF p.cards[card].title # None THEN p.cards[card].title[1]
                          ELSE "Project",
                !.body = card,
                !.grid = dockDrawer(cleared.grid, mq, card),
                !.hidden = FALSE,
                !.pendingShow = cleared.pendingShow + 1]

\* the document click listener without its isClickOnCard test
documentClickIgnoringCards(p, mq, ds, target) ==
    IF ds.hidden THEN ds
    ELSE IF target # "drawer" THEN closeDrawer(p, mq, ds)
    ELSE ds

\* the document click listener (lines 309-314); the target is "outside", inside
\* the "drawer", or inside a "card"
documentClick(p, mq, ds, target) ==
    IF ds.hidden THEN ds
    ELSE IF target # "drawer" /\ target # "card" THEN closeDrawer(p, mq, ds)
    ELSE ds

\* the document keydown listener without its test of drawer.hidden
documentKeydownWhileHidden(p, mq, ds, key) ==
    IF key = "Escape" THEN closeDrawer(p, mq, ds) ELSE ds

\* the document keydown listener (lines 304-306)
documentKeydown(p, mq, ds, key) ==
    IF key = "Escape" /\ ~ds.hidden THEN closeDrawer(p, mq, ds) ELSE ds

SetDrawer(ds) ==
    /\ activeCard' = ds.activeCard
    /\ dataActive' = ds.dataActive
    /\ ariaExpanded' = ds.ariaExpanded
    /\ hidden' = ds.hidden
    /\ drawerTitle' = ds.title
    /\ drawerBody' = ds.body
    /\ grid' = ds.grid
    /\ drawerVisible' = ds.visible
    /\ pendingShow' = ds.pendingShow


-----------------------------------------------------------------------------
(* Initial state: both scripts have run to their end *)

\* the two initial calls of lines 182 and 185, from ticking = false
InitialGate ==
    onScrollOrResize(onScrollOrResize([ticking |-> FALSE, pending |-> 0]))

\* lines 281-287: every card with a header starts inactive and collapsed
InitialAttr(p, c) ==
    IF ControllerBound(p) /\ p.cards[c].hasHeader THEN Some("false") ELSE None

InitWith(docs, markups, queries) ==
    /\ doc \in docs
    /\ proj \in markups
    /\ innerHeight \in doc.viewports
    /\ scrollTop = 0
    /\ now = 0
    /\ lockedActiveId = None
    /\ lockedUntil = 0
    /\ aboutRevealed = FALSE
    /\ aboutVisible = FALSE
    /\ ticking = InitialGate.ticking
    /\ pendingRecompute = InitialGate.pending
    /\ recomputed = 0
    /\ activeId = None
    /\ linkActive = [i \in 1..Len(doc.navLinks) |-> FALSE]
    /\ ariaCurrent = [i \in 1..Len(doc.navLinks) |-> FALSE]
    /\ progressWidth = None
    /\ threw = FALSE
    /\ mobile \in queries
    /\ activeCard = 0
    /\ dataActive = [c \in Cards(proj) |-> InitialAttr(proj, c)]
    /\ ariaExpanded = [c \in Cards(proj) |-> InitialAttr(proj, c)]
    /\ hidden = TRUE
    /\ drawerTitle = ""
    /\ drawerBody = 0
    /\ grid = proj.children
    /\ drawerVisible = FALSE
    /\ pendingShow = 0
    /\ lastActivated = 0
    /\ lastOpenable = 0
    /\ lastEvent = "none"
    /\ wasHidden = TRUE

Init == InitWith(Documents, ProjectMarkups, BOOLEAN)

-----------------------------------------------------------------------------
(* Events of the scroll sampler *)

\* script.js:23-28, the scroll listener: the width, and whether it threw
ScriptScrollListener(st) ==
    IF doc.hasProgress
    THEN /\ progressWidth' = ScriptProgress(doc, innerHeight, st, progressWidth)
         /\ threw' = threw
    ELSE /\ progressWidth' = progressWidth
         /\ threw' = TRUE

\* the user scrolls to offset st: both scroll listeners run
Scroll(st) ==
    /\ st \in ScrollStops(doc, innerHeight)
    /\ st # scrollTop
    /\ pendingRecompute < MaxPending
    /\ scrollTop' = st
    /\ ScriptScrollListener(st)
    /\ Gate
    /\ UNCHANGED <<doc, proj, innerHeight, now, lockedActiveId, lockedUntil,
                   aboutRevealed, aboutVisible, recomputed, activeId, linkActive,
                   ariaCurrent, drawerVars>>

\* the window is resized to height h; the scroll offset stays within the page
Resize(h) ==
    /\ h \in doc.viewports
    /\ pendingRecompute < MaxPending
    /\ innerHeight' = h
    /\ scrollTop' = IF scrollTop > DocHeight(doc, h) THEN DocHeight(doc, h) ELSE scrollTop
    /\ Gate
    /\ UNCHANGED <<doc, proj, now, lockedActiveId, lockedUntil, aboutRevealed,
                   aboutVisible, recomputed, activeId, linkActive, ariaCurrent,
                   progressWidth, threw, drawerVars>>

\* the window's load event
Load ==
    /\ pendingRecompute < MaxPending
    /\ Gate
    /\ UNCHANGED <<doc, proj, innerHeight, scrollTop, now, lockedActiveId,
                   lockedUntil, aboutRevealed, aboutVisible, recomputed, activeId,
                   linkActive, ariaCurrent, progressWidth, threw, drawerVars>>

\* lockActive whose highlight sets the class and leaves aria-current alone
lockActiveWithoutAria(id, ms) ==
    /\ lockedActiveId' = Some(id)
    /\ lockedUntil' = now + ms
    /\ linkActive' = setActive(doc, id)
    /\ ariaCurrent' = ariaCurrent

\* lockActive(id, ms) of lines 65-69
lockActive(id, ms) ==
    /\ lockedActiveId' = Some(id)
    /\ lockedUntil' = now + ms
    /\ linkActive' = setActive(doc, id)
    /\ ariaCurrent' = setActive(doc, id)

\* a click on nav link i (lines 71-80)
NavClick(i) ==
    /\ i \in 1..Len(doc.navLinks)
    /\ IF doc.navLinks[i].frag
       THEN lockActive(doc.navLinks[i].id, LockMs)
       ELSE UNCHANGED <<lockedActiveId, lockedUntil, linkActive, ariaCurrent>>
    /\ UNCHANGED <<doc, proj, innerHeight, scrollTop, now, aboutRevealed,
                   aboutVisible, ticking, pendingRecompute, recomputed, activeId,
                   progressWidth, threw, drawerVars>>

\* script.js:5-20: the observer delivers an entry for the about section.  The
\* threshold decides when entries are delivered, not what they carry, so an
\* entry may arrive at any time.
ObserverEntry ==
    /\ doc.hasAbout
    /\ aboutVisible' = (aboutVisible \/ IsIntersecting(doc, innerHeight, scrollTop))
    /\ UNCHANGED <<doc, proj, innerHeight, scrollTop, now, lockedActiveId,
                   lockedUntil, aboutRevealed, ticking, pendingRecompute, recomputed,
                   activeId, linkActive, ariaCurrent, progressWidth, threw, drawerVars>>

\* time passes
Tick ==
    /\ now < MaxTicks * TickMs
    /\ now' = now + TickMs
    /\ UNCHANGED <<doc, proj, innerHeight, scrollTop, lockedActiveId, lockedUntil,
                   aboutRevealed, aboutVisible, ticking, pendingRecompute, recomputed,
                   activeId, linkActive, ariaCurrent, progressWidth, threw, drawerVars>>

-----------------------------------------------------------------------------
(* The animation frame *)

\* the callback without its last statement, ticking = false
RecomputeKeepsTicking ==
    LET reveal == updateAboutReveal(doc, innerHeight, scrollTop, aboutRevealed, aboutVisible)
        r == computeActiveSectionId(doc, innerHeight, scrollTop, now,
                                    lockedActiveId, lockedUntil)
    IN  /\ progressWidth' = updateProgress(doc, innerHeight, scrollTop, progressWidth)
        /\ aboutRevealed' = reveal[1]
        /\ aboutVisible' = reveal[2]
        /\ lockedActiveId' = r.lock
        /\ activeId' = r.id
        /\ IF Truthy(r.id)
           THEN linkActive' = setActive(doc, r.id[1]) /\ ariaCurrent' = setActive(doc, r.id[1])
           ELSE UNCHANGED <<linkActive, ariaCurrent>>
        /\ ticking' = ticking

\* the callback of lines 165-173
Recompute ==
    LET reveal == updateAboutReveal(doc, innerHeight, scrollTop, aboutRevealed, aboutVisible)
        r == computeActiveSectionId(doc, innerHeight, scrollTop, now,
                                    lockedActiveId, lockedUntil)
    IN  /\ progressWidth' = updateProgress(doc, innerHeight, scrollTop, progressWidth)
        /\ aboutRevealed' = reveal[1]
        /\ aboutVisible' = reveal[2]
        /\ lockedActiveId' = r.lock
        /\ activeId' = r.id
        /\ IF Truthy(r.id)
           THEN linkActive' = setActive(doc, r.id[1]) /\ ariaCurrent' = setActive(doc, r.id[1])
           ELSE UNCHANGED <<linkActive, ariaCurrent>>
        /\ ticking' = FALSE

\* the callback of lines 270-272
ShowDrawer == drawerVisible' = TRUE

\* the browser runs every queued frame callback.  A callback run twice in one
\* frame leaves the state of its first run, so each kind is applied once.
Frame ==
    /\ pendingRecompute > 0 \/ pendingShow > 0
    /\ IF pendingRecompute > 0
       THEN Recompute
       ELSE UNCHANGED <<progressWidth, aboutRevealed, aboutVisible, lockedActiveId,
                        activeId, linkActive, ariaCurrent, ticking>>
    /\ recomputed' = pendingRecompute
    /\ pendingRecompute' = 0
    /\ IF pendingShow > 0 THEN ShowDrawer ELSE UNCHANGED drawerVisible
    /\ pendingShow' = 0
    /\ UNCHANGED <<doc, proj, innerHeight, scrollTop, now, lockedUntil, threw, mobile,
                   activeCard, dataActive, ariaExpanded, hidden, drawerTitle,
                   drawerBody, grid, lastActivated, lastOpenable, lastEvent,
                   wasHidden>>

-----------------------------------------------------------------------------
(* Events of the drawer controller (part_000:279-318) *)

\* the header of card c was activated; history only
Activated(c) ==
    /\ lastActivated' = c
    /\ lastOpenable' = IF proj.cards[c].hasTemplate THEN c ELSE lastOpenable
    /\ lastEvent' = "activate"
    /\ wasHidden' = hidden

\* a click on the header of card c: its listener, then the document's
CardClick(c) ==
    /\ ControllerBound(proj)
    /\ c \in Cards(proj) /\ proj.cards[c].hasHeader
    /\ pendingShow < MaxPending
    /\ SetDrawer(documentClick(proj, mobile,
                               openDrawerFor(proj, mobile, DrawerState, c), "card"))
    /\ Activated(c)
    /\ UNCHANGED <<doc, proj, spyVars, mobile>>

\* Enter or Space on the header of card c: its listener, then the document's
CardKey(c, key) ==
    /\ ControllerBound(proj)
    /\ c \in Cards(proj) /\ proj.cards[c].hasHeader
    /\ key \in {"Enter", " "}
    /\ pendingShow < MaxPending
    /\ SetDrawer(documentKeydown(proj, mobile,
                                 openDrawerFor(proj, mobile, DrawerState, c), key))
    /\ Activated(c)
    /\ UNCHANGED <<doc, proj, spyVars, mobile>>

\* a click on the close button: closeDrawer, then the document's listener
CloseClick ==
    /\ ControllerBound(proj)
    /\ SetDrawer(documentClick(proj, mobile,
                               closeDrawer(proj, mobile, DrawerState), "drawer"))
    /\ lastEvent' = "close"
    /\ wasHidden' = hidden
    /\ UNCHANGED <<doc, proj, spyVars, mobile, lastActivated, lastOpenable>>

\* a click elsewhere: outside, inside the drawer, or inside a card off its header
DocClick(target) ==
    /\ ControllerBound(proj)
    /\ target \in {"outside", "drawer", "card"}
    /\ SetDrawer(documentClick(proj, mobile, DrawerState, target))
    /\ lastEvent' = target
    /\ wasHidden' = hidden
    /\ UNCHANGED <<doc, proj, spyVars, mobile, lastActivated, lastOpenable>>

EscapeKey ==
    /\ ControllerBound(proj)
    /\ SetDrawer(documentKeydown(proj, mobile, DrawerState, "Escape"))
    /\ lastEvent' = "Escape"
    /\ wasHidden' = hidden
    /\ UNCHANGED <<doc, proj, spyVars, mobile, lastActivated, lastOpenable>>

\* the (max-width: 700px) query changes (lines 316-318)
MediaChange ==
    /\ mobile' = ~mobile
    /\ IF ControllerBound(proj) /\ ~hidden
       THEN grid' = dockDrawer(grid, mobile', activeCard)
       ELSE grid' = grid
    /\ lastEvent' = "media"
    /\ wasHidden' = hidden
    /\ UNCHANGED <<doc, proj, spyVars, activeCard, dataActive, ariaExpanded, hidden,
                   drawerTitle, drawerBody, drawerVisible, pendingShow,
                   lastActivated, lastOpenable>>

-----------------------------------------------------------------------------
(* Specifications *)

SpyNext ==
    \/ \E st \in ScrollStops(doc, innerHeight) : Scroll(st)
    \/ \E h \in doc.viewports : Resize(h)
    \/ Load
    \/ \E i \in 1..Len(doc.navLinks) : NavClick(i)
    \/ ObserverEntry
    \/ Tick
    \/ Frame

DrawerNext ==
    \/ \E c \in Cards(proj) : CardClick(c)
    \/ \E c \in Cards(proj), key \in {"Enter", " "} : CardKey(c, key)
    \/ CloseClick
    \/ \E target \in {"outside", "drawer", "card"} : DocClick(target)
    \/ EscapeKey
    \/ MediaChange
    \/ Frame

Next == SpyNext \/ DrawerNext

\* the whole page
Spec == Init /\ [][Next]_vars

\* the scroll sampler on every document, the projects markup fixed
InitSpy == InitWith(Documents, {FullProjects}, {FALSE})

SpecSpy == InitSpy /\ [][SpyNext]_vars

\* the scroll sampler with every requested animation frame eventually firing
SpecSpyFair == InitSpy /\ [][SpyNext]_vars /\ WF_vars(Frame)

\* the drawer controller on every projects markup, the document fixed (the
\* short page has a single viewport height)
InitDrawer == InitWith({ShortDoc}, ProjectMarkups, BOOLEAN)

SpecDrawer == InitDrawer /\ [][DrawerNext]_vars


-----------------------------------------------------------------------------
(* Properties *)

ActiveCards == {c \in Cards(proj) : dataActive[c] = Some("true")}

\* card c's header is activated in this step, by click or by keyboard
Activation(c) == CardClick(c) \/ \E key \in {"Enter", " "} : CardKey(c, key)

\* the frame of this step runs the sampler's callback
RecomputeRuns == Frame /\ pendingRecompute > 0

\* exactly the links with href "#id" are marked active
OnlyActive(id) == \A i \in 1..Len(doc.navLinks) : linkActive[i] <=> doc.navLinks[i] = Hash(id)

HasLink(id) == \E i \in 1..Len(doc.navLinks) : doc.navLinks[i] = Hash(id)

AtBottom == scrollTop = DocHeight(doc, innerHeight)

\* C1 as stated: at most one card has data-active="true"; the drawer is shown
\* exactly when such a card exists; that card is activeCard and is the card
\* whose header was activated most recently.
C1_SingleOpenLastActivated ==
    /\ Cardinality(ActiveCards) <= 1
    /\ (hidden = FALSE) <=> (ActiveCards # {})
    /\ \A c \in ActiveCards : activeCard = c /\ lastActivated = c

\* C1 (amended): at most one card has data-active="true"; the drawer is shown
\* exactly when such a card exists; that card is activeCard and is the most
\* recently activated card among the cards that have a .project-template.
C1_SingleOpen ==
    /\ Cardinality(ActiveCards) <= 1
    /\ (hidden = FALSE) <=> (ActiveCards # {})
    /\ \A c \in ActiveCards : activeCard = c /\ lastOpenable = c

\* card 2 is open although the template-less card 3 was activated after it
C1_Witness ==
    /\ proj = FullProjects
    /\ ActiveCards = {2} /\ hidden = FALSE
    /\ lastOpenable = 2 /\ lastActivated = 3

OpenFor(c) ==
    /\ activeCard = c
    /\ dataActive[c] = Some("true")
    /\ ariaExpanded[c] = Some("true")
    /\ hidden = FALSE

Closed ==
    /\ activeCard = 0
    /\ ActiveCards = {}
    /\ \A c \in Cards(proj) : proj.cards[c].hasHeader => ariaExpanded[c] = Some("false")
    /\ hidden = TRUE
    /\ drawerTitle = ""
    /\ drawerBody = 0

\* C2 as stated: activating any project card while the drawer is hidden opens
\* the drawer for it, and activating the open card closes the drawer again;
\* the document listeners reached by the same event do not undo either.
C2_ToggleAnyCard ==
    [][\A c \in Cards(proj) :
          Activation(c) =>
            /\ hidden => OpenFor(c)'
            /\ (~hidden /\ activeCard = c) => Closed']_vars

\* C2 (amended): activating a project card that has a .project-template while
\* the drawer is hidden opens the drawer for it, and activating the open card
\* closes the drawer again (no active card, every aria-expanded false, drawer
\* hidden, title and body empty); the document listeners reached by the same
\* event do not undo either.
C2_Toggle ==
    [][\A c \in Cards(proj) :
          (Activation(c) /\ proj.cards[c].hasTemplate) =>
            /\ hidden => OpenFor(c)'
            /\ (~hidden /\ activeCard = c) => Closed']_vars

\* card 1 was opened and has just been closed by its own header, before the
\* frame of the opening ran
C2_Witness ==
    /\ proj = FullProjects
    /\ Closed /\ lastEvent = "activate" /\ lastActivated = 1 /\ pendingShow = 1

\* C3: at most one recomputation callback is pending at any time, and no
\* frame runs more than one recomputation.
C3_SingleFlight == pendingRecompute <= 1 /\ recomputed <= 1

\* after a frame, further events have queued exactly one callback
C3_Witness ==
    /\ recomputed = 1 /\ ticking /\ pendingRecompute = 1
    /\ scrollTop # 0 /\ now > 0

\* C4 as stated: a recomputation that runs with the page scrolled to its
\* bottom makes the link "#contact" the one active link.
C4_BottomIsContact ==
    [][(RecomputeRuns /\ AtBottom) => (HasLink("contact") /\ OnlyActive("contact")')]_vars

\* C4 (amended): a recomputation that runs with at least one link target, no
\* lock in effect and the page scrolled to its bottom, the maximum scroll
\* offset being at least 80, computes "contact": every link with href
\* "#contact" becomes active and no other link is active.
C4_BottomIsContactUnlessTopOrLock ==
    [][(/\ RecomputeRuns /\ AtBottom
        /\ Len(linkTargets(doc)) > 0
        /\ ~LockHolds(lockedActiveId, lockedUntil, now)
        /\ DocHeight(doc, innerHeight) >= TopFallbackPx)
       => (activeId' = Some("contact") /\ OnlyActive("contact")')]_vars

\* the designed page at its bottom, recomputed, the contact link active
C4_Witness ==
    /\ doc = MainDoc /\ AtBottom /\ ~ticking /\ recomputed = 1
    /\ activeId = Some("contact") /\ linkActive[4]
    /\ ~LockHolds(lockedActiveId, lockedUntil, now)

\* C5: no initialization step and no event handler throws, whatever expected
\* elements the document lacks.
C5_NoHandlerThrows == threw = FALSE

\* C6: aboutRevealed never goes back to false and implies the "visible"
\* class; it becomes true exactly in a recomputation that finds the section's
\* top above 75% of the viewport height, and that recomputation adds the
\* class; a recomputation after the reveal leaves the class as it is.
C6_RevealOnce ==
    [][/\ aboutRevealed => aboutRevealed'
       /\ aboutRevealed' => aboutVisible'
       /\ (RecomputeRuns /\ doc.hasAbout /\ ~aboutRevealed
             /\ AboutEntered(doc, innerHeight, scrollTop)) => aboutRevealed'
       /\ (~aboutRevealed /\ aboutRevealed')
             => (RecomputeRuns /\ AboutEntered(doc, innerHeight, scrollTop))
       /\ (RecomputeRuns /\ aboutRevealed) => aboutVisible' = aboutVisible]_vars

\* revealed, then scrolled back above the section and recomputed there
C6_Witness ==
    /\ doc = MainDoc /\ aboutRevealed /\ aboutVisible
    /\ scrollTop = 0 /\ ~AboutEntered(doc, innerHeight, scrollTop)
    /\ ~ticking /\ progressWidth = <<0, 1>>

DrawerLast == grid # <<>> /\ grid[Len(grid)] = 0

Docked ==
    IF mobile
    THEN \E k \in 1..(Len(grid) - 1) : grid[k] = activeCard /\ grid[k + 1] = 0
    ELSE DrawerLast

\* C7: whenever the drawer is open it is the next sibling of the active card
\* if the media query matches and the last child of the grid otherwise; a step
\* that closes the drawer leaves it the last child, and it stays there while
\* the drawer remains hidden.
C7_Docking ==
    [][/\ ~hidden' => Docked'
       /\ (~hidden /\ hidden') => DrawerLast'
       /\ (hidden /\ DrawerLast /\ hidden') => DrawerLast']_vars

\* open on mobile for the first of four cards: the drawer sits between 1 and 2
C7_Witness ==
    /\ proj = FullProjects /\ mobile /\ ~hidden /\ activeCard = 1
    /\ grid = <<1, 0, 2, 3, 4>>

\* C8: a click on a link "#id" marks that link active at once, and a
\* recomputation less than 900 ms after the latest navigation click leaves
\* exactly the links "#id" active.
C8_ClickLock ==
    [][/\ \A i \in 1..Len(doc.navLinks) :
            (NavClick(i) /\ doc.navLinks[i].frag) => linkActive'[i]
       /\ (RecomputeRuns /\ lockedUntil > 0 /\ now < lockedUntil)
            => \A i \in 1..Len(doc.navLinks) :
                  linkActive'[i] <=> doc.navLinks[i] = Hash(lockedActiveId[1])]_vars

\* C9: once now >= lockedUntil the lock has no effect: the id computed is the
\* id computed with no link ever clicked, reset or not.
C9_ExpiredLockHasNoEffect ==
    now >= lockedUntil =>
        computeActiveSectionId(doc, innerHeight, scrollTop, now,
                               lockedActiveId, lockedUntil).id
      = computeActiveSectionId(doc, innerHeight, scrollTop, now, None, 0).id

\* the lock on "about" expired this very millisecond and is not reset yet,
\* while the page is at the top
C9_Witness ==
    /\ doc = MainDoc /\ lockedActiveId = Some("about") /\ now = lockedUntil
    /\ scrollTop = 0

\* C10: a recomputation that runs with at least one link target, no lock in
\* effect and scrollTop < 80 computes "home", also at the bottom of a page
\* whose maximum scroll offset is below 80.
C10_TopFallback ==
    [][(/\ RecomputeRuns
        /\ Len(linkTargets(doc)) > 0
        /\ ~LockHolds(lockedActiveId, lockedUntil, now)
        /\ scrollTop < TopFallbackPx)
       => activeId' = Some("home")]_vars

\* the short page recomputed at its bottom: "home", not "contact"
C10_Witness ==
    /\ doc = ShortDoc /\ AtBottom /\ scrollTop > 0 /\ ~ticking
    /\ Len(linkTargets(doc)) > 0
    /\ activeId = Some("home")


\* the link targets whose top is at or above the activation line
Reached == { k \in 1..Len(linkTargets(doc)) :
               AtOrAboveLine(doc, innerHeight, scrollTop,
                             PageTop(doc, linkTargets(doc)[k].id)) }

NoFallback ==
    /\ ~(scrollTop < TopFallbackPx)
    /\ ~(DocHeight(doc, innerHeight) > 0
           /\ scrollTop > DocHeight(doc, innerHeight) - BottomFallbackPx)

\* C11: a recomputation with at least one link target, no lock in effect and
\* neither fallback applying computes the id of a link target: one at or above
\* the activation line with the greatest page top if there is any, and the
\* first entry of linkTargets otherwise.
C11_ActivationLine ==
    [][(/\ RecomputeRuns
        /\ Len(linkTargets(doc)) > 0
        /\ ~LockHolds(lockedActiveId, lockedUntil, now)
        /\ NoFallback)
       => LET ts == linkTargets(doc)
          IN  /\ \E k \in 1..Len(ts) : activeId' = Some(ts[k].id)
              /\ Reached = {} => activeId' = Some(ts[1].id)
              /\ Reached # {} =>
                    \E k \in Reached :
                       /\ activeId' = Some(ts[k].id)
                       /\ \A j \in Reached :
                             PageTop(doc, ts[j].id) <= PageTop(doc, ts[k].id)]_vars

\* no section has reached the line: the first target after sorting is chosen
C11_Witness ==
    /\ doc = MixedDoc /\ scrollTop = TopFallbackPx /\ ~ticking /\ recomputed = 1
    /\ Reached = {} /\ NoFallback
    /\ linkTargets(doc)[1].id = "projects"
    /\ activeId = Some("projects")


\* the drawer shows card b and b alone: every other card inactive and
\* collapsed, the title b's h3 text (or "Project"), the body a copy of b's
\* template
ShowsOnly(b) ==
    /\ hidden = FALSE
    /\ ActiveCards = {b}
    /\ ariaExpanded[b] = Some("true")
    /\ \A a \in Cards(proj) \ {b} :
          /\ dataActive[a] = Some("false")
          /\ proj.cards[a].hasHeader => ariaExpanded[a] = Some("false")
    /\ drawerTitle = (IF proj.cards[b].title # None THEN proj.cards[b].title[1]
                      ELSE "Project")
    /\ drawerBody = b

\* C12 as stated: activating any card B while the drawer is open for another
\* card A leaves the drawer open and showing B alone.
C12_SwitchAnyCard ==
    [][\A b \in Cards(proj) :
          (Activation(b) /\ ~hidden /\ activeCard # 0 /\ activeCard # b)
            => ShowsOnly(b)']_vars

\* C12 (amended): activating a card B that has a .project-template while the
\* drawer is open for another card A leaves the drawer open and showing B
\* alone: A inactive and collapsed, B active and expanded, the title and body
\* B's; the listeners of the same event see no state with the drawer hidden
\* or two cards active.
C12_Switch ==
    [][\A b \in Cards(proj) :
          (Activation(b) /\ proj.cards[b].hasTemplate
             /\ ~hidden /\ activeCard # 0 /\ activeCard # b)
            => ShowsOnly(b)']_vars

\* the drawer was open when card 2's header was activated, and card 2 (which
\* has no h3) is open now: a switch from card 1
C12_Witness ==
    /\ proj = FullProjects
    /\ lastEvent = "activate" /\ lastActivated = 2 /\ ~wasHidden
    /\ ShowsOnly(2) /\ drawerTitle = "Project"


\* what the drawer controller keeps: everything the claims call drawer state
ControllerState ==
    <<activeCard, dataActive, ariaExpanded, hidden, drawerTitle, drawerBody, grid,
      drawerVisible, pendingShow>>

\* C13: while the drawer is open, a close-button click, an Escape keydown and
\* a document click outside the drawer and the cards each close it; a document
\* click inside the drawer or inside a card (off its header), and an Escape
\* keydown or any document click while the drawer is hidden, change no drawer
\* state.
C13_CloseControls ==
    [][/\ (~hidden /\ (CloseClick \/ EscapeKey \/ DocClick("outside"))) => Closed'
       /\ (DocClick("drawer") \/ DocClick("card")) => UNCHANGED ControllerState
       /\ (hidden /\ (EscapeKey \/ \E t \in {"outside", "drawer", "card"} : DocClick(t)))
            => UNCHANGED ControllerState]_vars

\* the drawer was open when a click landed outside, and it is closed now
C13_Witness ==
    /\ proj = FullProjects
    /\ lastEvent = "outside" /\ ~wasHidden /\ Closed /\ lastActivated = 2


\* C14: a recomputation on a page with a progress bar sets its width to
\* (scrollTop / docHeight) * 100 percent when docHeight > 0 and to 0 percent
\* otherwise; the percentage lies in [0, 100], is 0 at the top and, on a page
\* that scrolls, 100 at the bottom.
C14_ScrollProgress ==
    [][(RecomputeRuns /\ doc.hasProgress)
       => LET dh == DocHeight(doc, innerHeight)
              w == progressWidth'
          IN  /\ w # None
              /\ w[2] > 0
              /\ dh > 0 => w[1] * dh = scrollTop * 100 * w[2]
              /\ dh <= 0 => w[1] = 0
              /\ 0 <= w[1] /\ w[1] <= 100 * w[2]
              /\ scrollTop = 0 => w[1] = 0
              /\ (dh > 0 /\ scrollTop = dh) => w[1] = 100 * w[2]]_vars

\* the page that fits its viewport, recomputed: docHeight is 0, the width 0%
C14_Witness ==
    /\ doc = FitDoc /\ DocHeight(doc, innerHeight) = 0
    /\ ~ticking /\ recomputed = 1
    /\ progressWidth = <<0, 1>>


\* a scroll, resize or load event happens in this step
SamplerEvent ==
    \/ \E st \in ScrollStops(doc, innerHeight) : Scroll(st)
    \/ \E h \in doc.viewports : Resize(h)
    \/ Load

\* the progress bar shows the current scroll position
ProgressCurrent ==
    doc.hasProgress =>
        progressWidth = updateProgress(doc, innerHeight, scrollTop, progressWidth)

\* C15: with every requested frame eventually firing, every scroll, resize or
\* load event, dropped or not, leaves ticking true with a callback pending;
\* ticking always returns to false, which only a recomputation does; and
\* whenever ticking is false the latest recomputation read the current scroll
\* position and viewport.
C15_NoLostUpdate ==
    /\ [][SamplerEvent => (ticking' /\ pendingRecompute' > 0)]_vars
    /\ [][(ticking /\ ~ticking') => RecomputeRuns]_vars
    /\ [](ticking => pendingRecompute > 0)
    /\ [](~ticking => ProgressCurrent)
    /\ (ticking ~> ~ticking)

\* a recomputation has run, the page was then scrolled to the bottom, and
\* the frame requested for that scroll has not fired yet: the highlight
\* still shows the section of the older position
C15_Witness ==
    /\ doc = MainDoc /\ ticking /\ pendingRecompute = 1 /\ recomputed = 1
    /\ scrollTop = DocHeight(doc, innerHeight)
    /\ activeId = Some("home")

\* C16: the drawer never carries the "drawer-visible" class while it is
\* hidden, in every interleaving of card activations, close actions and
\* animation frames.  Closing the drawer before the frame requested by the
\* preceding open has fired leaves that callback queued, and the callback adds
\* the class without looking at drawer.hidden.
C16_HiddenNeverVisible == hidden => ~drawerVisible

\* the ids setActive can be called with: a link's fragment or a fallback
LinkIds == Ids \cup {""}

\* this step calls setActive(id): a click on a link with href "#id", or a
\* recomputation whose section id is id
SetActiveCall(id) ==
    \/ \E i \in 1..Len(doc.navLinks) :
            NavClick(i) /\ doc.navLinks[i] = Hash(id)
    \/ RecomputeRuns /\ Truthy(activeId') /\ activeId' = Some(id)

DistinctHrefs ==
    \A i, j \in 1..Len(doc.navLinks) : doc.navLinks[i] = doc.navLinks[j] => i = j

\* C17: after every setActive(id) call, from a recomputation or from a
\* navigation click, each link has the "active" class iff it has
\* aria-current="page" iff its href is "#" + id; so with pairwise distinct
\* hrefs at most one link is active, and when no link has that href no link
\* is active.
C17_HighlightConsistent ==
    [][\A id \in LinkIds : SetActiveCall(id) =>
          /\ \A i \in 1..Len(doc.navLinks) :
                /\ linkActive'[i] <=> ariaCurrent'[i]
                /\ linkActive'[i] <=> (doc.navLinks[i] = Hash(id))
          /\ DistinctHrefs =>
                Cardinality({i \in 1..Len(doc.navLinks) : linkActive'[i]}) <= 1
          /\ ~HasLink(id) =>
                \A i \in 1..Len(doc.navLinks) : ~linkActive'[i] /\ ~ariaCurrent'[i]]_vars

\* on the short page the link "#about" was clicked, its lock ran out, and a
\* recomputation at the top called setActive("home"): no link has that
\* href and the clicked link lost its highlight
C17_Witness ==
    /\ doc = ShortDoc /\ recomputed > 0 /\ activeId = Some("home")
    /\ lockedActiveId = Some("about") /\ now >= lockedUntil
    /\ \A i \in 1..Len(doc.navLinks) : ~linkActive[i] /\ ~ariaCurrent[i]

\* C18: activating a card that has a header but no .project-template leaves
\* all drawer state unchanged (activeCard, every card's data-active and
\* aria-expanded, the hidden flag, title, body and the drawer's position),
\* whether the drawer was closed or open for another card.
C18_NoTemplateNoChange ==
    [][\A c \in Cards(proj) :
          (Activation(c) /\ proj.cards[c].hasHeader /\ ~proj.cards[c].hasTemplate) =>
              UNCHANGED <<activeCard, dataActive, ariaExpanded, hidden, drawerTitle,
                          drawerBody, grid>>]_vars

\* the drawer is open for card 1 and the header of card 3, which has no
\* template, has just been activated
C18_Witness ==
    /\ proj = FullProjects /\ lastEvent = "activate" /\ lastActivated = 3
    /\ ~wasHidden /\ ~hidden /\ activeCard = 1
    /\ dataActive[1] = Some("true") /\ dataActive[3] = Some("false")

=============================================================================
